---- MODULE Spec2Model ----
(***************************************************************************)
(* A model of pkg/scalers/azure_monitor.go: one invocation of              *)
(* GetAzureMetricValue (build the request, validate it, query Azure        *)
(* Monitor, extract the value of the requested aggregation, round it).     *)
(*                                                                         *)
(* Strings the code takes apart (resourceURI, aggregationInterval,         *)
(* aggregationType) are sequences of one-character strings; the others are *)
(* TLA+ strings.  A float64 is a whole number of tenths (Scale), a time is *)
(* a whole number of seconds since the epoch.  A Go run-time panic (index  *)
(* out of range, nil pointer dereference) is the outcome kind "panic".     *)
(***************************************************************************)
EXTENDS Integers, Sequences, FiniteSets

VARIABLES pc, metadata, clock, request, response, value, result, calls

vars == <<pc, metadata, clock, request, response, value, result, calls>>

----------------------------------------------------------------------------
(* Bounds of the model *)

\* longest aggregationInterval string of SpecBuild
MaxIntervalLen == 6
\* longest resourceURI string of SpecBuild
MaxURILen == 5
\* most data points of a time series in SpecExtract
MaxData == 2
\* largest clock advance (seconds) between two reads of time.Now()
MaxSkew == 1
\* SpecRound rounds every value of -MaxTenths..MaxTenths tenths
MaxTenths == 130

\* tenths per unit: the float64 4.5 is the number 45
Scale == 10
\* the clock (seconds since the epoch) when the invocation starts
Now0 == 1000000
\* 5 * time.Minute, in seconds
DefaultWindow == 300

----------------------------------------------------------------------------
(* Strings *)

Digits == {"0", "1", "2", "3", "4", "5", "6", "7", "8", "9"}
DigitChars == <<"0", "1", "2", "3", "4", "5", "6", "7", "8", "9">>
DigitVal(c) == (CHOOSE i \in 1..10 : DigitChars[i] = c) - 1

UpperChars == <<"A", "B", "C", "D", "E", "F", "G", "H", "I", "J", "K", "L", "M",
                "N", "O", "P", "Q", "R", "S", "T", "U", "V", "W", "X", "Y", "Z">>
LowerChars == <<"a", "b", "c", "d", "e", "f", "g", "h", "i", "j", "k", "l", "m",
                "n", "o", "p", "q", "r", "s", "t", "u", "v", "w", "x", "y", "z">>

\* every string over alphabet A of length at most n
StringsUpTo(A, n) == UNION {[1..k -> A] : k \in 0..n}

\* strings.Split(s, sep) for a one-character sep: Split("", sep) is <<"">>
RECURSIVE Split(_, _)
Split(s, sep) ==
  IF \A i \in 1..Len(s) : s[i] # sep
  THEN <<s>>
  ELSE LET k == CHOOSE i \in 1..Len(s) :
                  s[i] = sep /\ \A j \in 1..(i - 1) : s[j] # sep
       IN <<SubSeq(s, 1, k - 1)>> \o Split(SubSeq(s, k + 1, Len(s)), sep)

\* the value of a string of decimal digits
RECURSIVE ParseUint(_)
ParseUint(s) ==
  IF s = <<>> THEN 0
  ELSE ParseUint(SubSeq(s, 1, Len(s) - 1)) * 10 + DigitVal(s[Len(s)])

\* strconv.Atoi: an optional sign, then one or more decimal digits
Atoi(s) ==
  LET signed == s # <<>> /\ s[1] \in {"+", "-"}
      body == IF signed THEN Tail(s) ELSE s
  IN IF body = <<>> \/ \E i \in 1..Len(body) : body[i] \notin Digits
     THEN [ok |-> FALSE, n |-> 0]
     ELSE [ok |-> TRUE,
           n |-> IF signed /\ s[1] = "-" THEN 0 - ParseUint(body)
                 ELSE ParseUint(body)]

\* the simple case folding of one character (ASCII letters)
FoldChar(c) ==
  IF \E i \in 1..26 : UpperChars[i] = c
  THEN LowerChars[CHOOSE i \in 1..26 : UpperChars[i] = c]
  ELSE c

\* strings.EqualFold
EqualFold(s, t) ==
  /\ Len(s) = Len(t)
  /\ \A i \in 1..Len(s) : FoldChar(s[i]) = FoldChar(t[i])

\* insights.Average, Total, Maximum, Minimum, Count
Average == <<"A", "v", "e", "r", "a", "g", "e">>
Total == <<"T", "o", "t", "a", "l">>
Maximum == <<"M", "a", "x", "i", "m", "u", "m">>
Minimum == <<"M", "i", "n", "i", "m", "u", "m">>
Count == <<"C", "o", "u", "n", "t">>

----------------------------------------------------------------------------
(* Outcomes of a call: a normal return, an error return, a panic *)

Ok(v) == [kind |-> "ok", v |-> v, err |-> ""]
Err(e, v) == [kind |-> "err", v |-> v, err |-> e]
Panic(v) == [kind |-> "panic", v |-> v, err |-> ""]

ErrMetricName == "metricName is required"
ErrResourceGroup == "resourceGroup is required"
ErrSubscriptionID == "subscriptionID is required. set a default or pass via label selectors"
ErrTimespan == "Errors parsing metricAggregationInterval"
ErrEmptyResponse == "Got an empty response for metric"
ErrNoTimeseries == "Got metric result without timeseries"
ErrNoValues == "Got metric result without any metric values"
ErrUnsupported == "Unsupported aggregation type"
ErrNoValue == "Unable to get value for metric. No value returned by Azure Monitor"
ErrList == "client.List failed"

----------------------------------------------------------------------------
(* formatTimeSpan *)

\* time.Time.UTC().Format(time.RFC3339): date, hours, minutes, seconds
FormatRFC3339(t) ==
  [date |-> t \div 86400, hh |-> (t % 86400) \div 3600,
   mm |-> (t % 3600) \div 60, ss |-> t % 60]

NoTimespan == [start |-> FormatRFC3339(0), end |-> FormatRFC3339(0)]

\* tEnd, tDefault and tStart are the three readings of time.Now(), in order.
\* A time.Duration is counted in seconds; within MaxIntervalLen characters no
\* interval comes near the int64 nanosecond range, so the sum does not wrap.
FormatTimeSpan(timeSpan, tEnd, tDefault, tStart) ==
  IF timeSpan = <<>>
  THEN Ok([start |-> FormatRFC3339(tDefault - DefaultWindow),
           end |-> FormatRFC3339(tEnd)])
  ELSE LET aggregationInterval == Split(timeSpan, ":")
       IN IF Len(aggregationInterval) < 3
          THEN Panic(NoTimespan)
          ELSE LET hours == Atoi(aggregationInterval[1])
                   minutes == Atoi(aggregationInterval[2])
                   seconds == Atoi(aggregationInterval[3])
               IN IF ~hours.ok \/ ~minutes.ok \/ ~seconds.ok
                  THEN Err(ErrTimespan, NoTimespan)
                  ELSE Ok([start |-> FormatRFC3339(tStart - (hours.n * 3600
                                       + minutes.n * 60 + seconds.n)),
                           end |-> FormatRFC3339(tEnd)])

----------------------------------------------------------------------------
(* createMetricsRequest *)

NoRequest ==
  [MetricName |-> "", SubscriptionID |-> "", ResourceName |-> <<>>,
   ResourceProviderNamespace |-> <<>>, ResourceType |-> <<>>,
   Aggregation |-> <<>>, Timespan |-> NoTimespan, Filter |-> "",
   ResourceGroup |-> ""]

CreateMetricsRequestOf(md, tEnd, tDefault, tStart) ==
  LET resourceInfo == Split(md.resourceURI, "/")
  IN IF Len(resourceInfo) < 3
     THEN Panic(NoRequest)
     ELSE LET timespan == FormatTimeSpan(md.aggregationInterval,
                                         tEnd, tDefault, tStart)
          IN IF timespan.kind = "panic" THEN Panic(NoRequest)
             ELSE IF timespan.kind = "err" THEN Err(timespan.err, NoRequest)
             ELSE Ok([MetricName |-> md.name,
                      SubscriptionID |-> md.subscriptionID,
                      ResourceName |-> resourceInfo[3],
                      ResourceProviderNamespace |-> resourceInfo[1],
                      ResourceType |-> resourceInfo[2],
                      Aggregation |-> md.aggregationType,
                      Timespan |-> timespan.v,
                      Filter |-> md.filter,
                      ResourceGroup |-> md.resourceGroupName])

----------------------------------------------------------------------------
(* azureExternalMetricRequest.validate: "" is the nil error *)

ValidateSubscriptionFirst(amr) ==
  IF amr.SubscriptionID = "" THEN ErrSubscriptionID
  ELSE IF amr.ResourceGroup = "" THEN ErrResourceGroup
  ELSE IF amr.MetricName = "" THEN ErrMetricName
  ELSE ""

Validate(amr) ==
  IF amr.MetricName = "" THEN ErrMetricName
  ELSE IF amr.ResourceGroup = "" THEN ErrResourceGroup
  ELSE IF amr.SubscriptionID = "" THEN ErrSubscriptionID
  ELSE ""

----------------------------------------------------------------------------
(* insights.Response: pointers to slices, and optional numbers *)

\* a nil pointer to a slice, a pointer to a nil slice, a pointer to a slice
NilPtr == [k |-> "nilptr", e |-> <<>>]
NilSlice == [k |-> "nilslice", e |-> <<>>]
Slice(s) == [k |-> "slice", e |-> s]

\* a nil *float64 (or *int64), and a pointer to x
None == [some |-> FALSE, x |-> 0]
Some(x) == [some |-> TRUE, x |-> x]

NoResponse == [Value |-> NilPtr]

\* float64(n) of an integer n
Float64(n) == n * Scale

----------------------------------------------------------------------------
(* verifyAggregationTypeIsSupported: data is a non-empty sequence *)

VerifyAggregationWrongPoint(aggregationType, data) ==
  LET last == data[1]
  IN IF EqualFold(Average, aggregationType) /\ last.Average.some
     THEN Ok(last.Average.x)
     ELSE IF EqualFold(Total, aggregationType) /\ last.Total.some
     THEN Ok(last.Total.x)
     ELSE IF EqualFold(Maximum, aggregationType) /\ last.Maximum.some
     THEN Ok(last.Maximum.x)
     ELSE IF EqualFold(Minimum, aggregationType) /\ last.Minimum.some
     THEN Ok(last.Minimum.x)
     ELSE IF EqualFold(Count, aggregationType) /\ last.Count.some
     THEN Ok(Float64(last.Count.x))
     ELSE Err(ErrUnsupported, 0)

VerifyAggregationTypeIsSupported(aggregationType, data) ==
  LET last == data[Len(data)]
  IN IF EqualFold(Average, aggregationType) /\ last.Average.some
     THEN Ok(last.Average.x)
     ELSE IF EqualFold(Total, aggregationType) /\ last.Total.some
     THEN Ok(last.Total.x)
     ELSE IF EqualFold(Maximum, aggregationType) /\ last.Maximum.some
     THEN Ok(last.Maximum.x)
     ELSE IF EqualFold(Minimum, aggregationType) /\ last.Minimum.some
     THEN Ok(last.Minimum.x)
     ELSE IF EqualFold(Count, aggregationType) /\ last.Count.some
     THEN Ok(Float64(last.Count.x))
     ELSE Err(ErrUnsupported, 0)

----------------------------------------------------------------------------
(* extractValue *)

ExtractValueOf(azMetricRequest, metricResult) ==
  IF metricResult.Value.k = "nilptr" THEN Panic(0)
  ELSE LET metricVals == metricResult.Value.e
  IN IF Len(metricVals) = 0 THEN Err(ErrEmptyResponse, -1 * Scale)
  ELSE IF metricVals[1].Timeseries.k = "nilptr" THEN Panic(0)
  ELSE IF metricVals[1].Timeseries.k = "nilslice"
       THEN Err(ErrNoTimeseries, -1 * Scale)
  ELSE LET timeseries == metricVals[1].Timeseries.e
  IN IF Len(timeseries) = 0 THEN Panic(0)
  ELSE IF timeseries[1].Data.k = "nilptr" THEN Panic(0)
  ELSE IF timeseries[1].Data.k = "nilslice" THEN Err(ErrNoValues, -1 * Scale)
  ELSE LET data == timeseries[1].Data.e
  IN IF Len(data) = 0 THEN Panic(0)
  ELSE LET valuePtr == VerifyAggregationTypeIsSupported(
                         azMetricRequest.Aggregation, data)
  IN IF valuePtr.kind = "err" THEN Err(ErrNoValue, -1 * Scale)
  ELSE Ok(valuePtr.v)

----------------------------------------------------------------------------
(* math.Round on tenths: the nearest integer, halves away from zero.  Every  *)
(* value of the model is far inside the int32 range, where int32() of the   *)
(* rounded float is that integer.                                           *)

MathRoundTruncates(x) ==
  IF x >= 0 THEN x \div Scale ELSE 0 - ((0 - x) \div Scale)

MathRound(x) ==
  IF x >= 0 THEN (2 * x + Scale) \div (2 * Scale)
  ELSE 0 - ((2 * (0 - x) + Scale) \div (2 * Scale))

----------------------------------------------------------------------------
(* The invocation: state, inputs and steps *)

NoResult == [kind |-> "none", v |-> 0, err |-> ""]

\* the aggregationType strings tried
AggStrings ==
  {Average, Total, Maximum, Minimum, Count,
   <<"A", "V", "E", "R", "A", "G", "E">>, <<"C", "O", "U", "N", "T">>,
   <<"t", "o", "t", "a", "l">>, <<"m", "a", "x", "i", "m", "u", "m">>,
   <<"m", "I", "n", "I", "m", "U", "m">>,
   <<"S", "u", "m">>, <<>>, <<"A", "v", "e", "r", "a", "g">>,
   <<"C", "o", "u", "n", "t", "s">>}

\* a metadata of the end-to-end example: "n/t/q", Average, no interval
BaseMeta ==
  [name |-> "Length", subscriptionID |-> "s1", resourceGroupName |-> "g1",
   resourceURI |-> <<"n", "/", "t", "/", "q">>, aggregationType |-> Average,
   aggregationInterval |-> <<>>, filter |-> ""]

\* the metadata of Spec: every required field empty or not, three resource
\* URIs, four aggregation types, four intervals
Metadatas ==
  [name : {"", "Length"}, subscriptionID : {"", "s1"},
   resourceGroupName : {"", "g1"},
   resourceURI : {<<"n", "/", "t", "/", "q">>, <<"n", "/", "t">>, <<>>},
   aggregationType : {Average, <<"m", "i", "n", "i", "m", "u", "m">>,
                      <<"C", "O", "U", "N", "T">>, <<"S", "u", "m">>},
   aggregationInterval : {<<>>, <<"1", ":", "3", "0", ":", "0">>,
                          <<"x", ":", "0", ":", "0">>, <<"5">>},
   filter : {""}]

\* insights.MetricValue: every field present or not
Points ==
  [Average : {None, Some(126)}, Total : {None, Some(45)},
   Maximum : {None, Some(-45)}, Minimum : {None, Some(-10)},
   Count : {None, Some(7)}]

NoPoint ==
  [Average |-> None, Total |-> None, Maximum |-> None, Minimum |-> None,
   Count |-> None]
FullPoint ==
  [Average |-> Some(126), Total |-> Some(45), Maximum |-> Some(-45),
   Minimum |-> Some(-10), Count |-> Some(7)]

\* a response of one metric with one time series holding data
ResponseOf(data) ==
  [Value |-> Slice(<<[Timeseries |-> Slice(<<[Data |-> data]>>)]>>)]

\* an earlier sample of the series: no field, every field or one field, with
\* values that differ from those of Points
OlderPoints ==
  LET older == [Average |-> Some(127), Total |-> Some(46),
                Maximum |-> Some(-44), Minimum |-> Some(-9), Count |-> Some(8)]
  IN {NoPoint, older}
       \cup {[NoPoint EXCEPT !.Average = older.Average],
             [NoPoint EXCEPT !.Total = older.Total],
             [NoPoint EXCEPT !.Maximum = older.Maximum],
             [NoPoint EXCEPT !.Minimum = older.Minimum],
             [NoPoint EXCEPT !.Count = older.Count]}

\* the data-point sequences of at most n points: the last one any of Points
DataSeqs(n) ==
  {<<>>} \cup UNION {{Append(d, p) : d \in [1..k -> OlderPoints], p \in Points} :
                       k \in 0..(n - 1)}

\* the pointers to data-point slices of at most n points
DataOpts(n) == {NilPtr, NilSlice} \cup {Slice(d) : d \in DataSeqs(n)}

\* every shape of the levels above the data, with at most one data point, and
\* a second metric and a second time series that hold a full point
ShapedResponses ==
  LET other == [Data |-> Slice(<<FullPoint>>)]
      series == {NilPtr, NilSlice, Slice(<<>>)}
                  \cup {Slice(<<[Data |-> d]>>) : d \in DataOpts(1)}
                  \cup {Slice(<<[Data |-> d], other>>) : d \in DataOpts(1)}
      metrics == {NilPtr, NilSlice, Slice(<<>>)}
                   \cup {Slice(<<[Timeseries |-> t]>>) : t \in series}
                   \cup {Slice(<<[Timeseries |-> t],
                                 [Timeseries |-> Slice(<<other>>)]>>) :
                           t \in series}
  IN {[Value |-> m] : m \in metrics}

\* the responses of SpecExtract
Responses == ShapedResponses \cup {ResponseOf(d) : d \in DataOpts(MaxData)}

\* what client.List returns in Spec
ListedResponses ==
  {[Value |-> NilPtr], [Value |-> Slice(<<>>)],
   [Value |-> Slice(<<[Timeseries |-> NilSlice]>>)],
   [Value |-> Slice(<<[Timeseries |-> Slice(<<>>)]>>)],
   ResponseOf(NilSlice), ResponseOf(Slice(<<>>)),
   ResponseOf(Slice(<<FullPoint>>)),
   ResponseOf(Slice(<<FullPoint, [NoPoint EXCEPT !.Count = Some(7)]>>))}

Init ==
  /\ pc = "start"
  /\ metadata \in Metadatas
  /\ clock = Now0
  /\ request = NoRequest
  /\ response = NoResponse
  /\ value = 0
  /\ result = NoResult
  /\ calls = <<>>

\* GetAzureMetricValue, lines 33-38: build the request
CreateMetricsRequest ==
  /\ pc = "start"
  /\ \E d1, d2 \in 0..MaxSkew :
       LET r == CreateMetricsRequestOf(metadata, clock, clock + d1,
                                       clock + d1 + d2)
       IN /\ clock' = clock + d1 + d2
          /\ IF r.kind = "ok"
             THEN /\ request' = r.v
                  /\ pc' = "built"
                  /\ UNCHANGED result
             ELSE /\ pc' = "done"
                  /\ result' = IF r.kind = "err" THEN Err(r.err, -1)
                               ELSE Panic(0)
                  /\ UNCHANGED request
  /\ calls' = Append(calls, "createMetricsRequest")
  /\ UNCHANGED <<metadata, response, value>>

\* the validation with its error dropped
ValidateRequestIgnored ==
  /\ pc = "built"
  /\ pc' = "validated"
  /\ calls' = Append(calls, "validate")
  /\ UNCHANGED <<metadata, clock, request, response, value, result>>

\* getAzureMetric, lines 92-95, and executeRequest's error return
ValidateRequest ==
  /\ pc = "built"
  /\ LET err == Validate(request)
     IN IF err = ""
        THEN pc' = "validated" /\ UNCHANGED result
        ELSE pc' = "done" /\ result' = Err(err, -1)
  /\ calls' = Append(calls, "validate")
  /\ UNCHANGED <<metadata, clock, request, response, value>>

\* getAzureMetric, lines 100-106: client.List answers or fails
ClientList ==
  /\ pc = "validated"
  /\ \E ok \in BOOLEAN :
       IF ok
       THEN /\ response' \in ListedResponses
            /\ pc' = "queried"
            /\ UNCHANGED result
       ELSE /\ pc' = "done"
            /\ result' = Err(ErrList, -1)
            /\ UNCHANGED response
  /\ calls' = Append(calls, "List")
  /\ UNCHANGED <<metadata, clock, request, value>>

\* getAzureMetric, lines 108-110, and executeRequest's error return
ExtractValue ==
  /\ pc = "queried"
  /\ LET r == ExtractValueOf(request, response)
     IN IF r.kind = "ok"
        THEN /\ value' = r.v
             /\ pc' = "extracted"
             /\ UNCHANGED result
        ELSE /\ pc' = "done"
             /\ result' = IF r.kind = "err" THEN Err(r.err, -1) ELSE Panic(0)
             /\ UNCHANGED value
  /\ calls' = Append(calls, "extractValue")
  /\ UNCHANGED <<metadata, clock, request, response>>

\* executeRequest, lines 86-88
RoundValue ==
  /\ pc = "extracted"
  /\ result' = Ok(MathRound(value))
  /\ pc' = "done"
  /\ calls' = Append(calls, "Round")
  /\ UNCHANGED <<metadata, clock, request, response, value>>

Next ==
  \/ CreateMetricsRequest
  \/ ValidateRequest
  \/ ClientList
  \/ ExtractValue
  \/ RoundValue

Spec == Init /\ [][Next]_vars

----------------------------------------------------------------------------
(* createMetricsRequest alone, on every resource URI and every interval *)

URIChars == {"a", "b", "/"}
IntervalChars == {"0", "1", "3", ":", "-", "x"}

InitBuild ==
  /\ pc = "start"
  /\ \/ \E u \in StringsUpTo(URIChars, MaxURILen) :
          metadata = [BaseMeta EXCEPT !.resourceURI = u]
     \/ \E t \in StringsUpTo(IntervalChars, MaxIntervalLen) :
          metadata = [BaseMeta EXCEPT !.aggregationInterval = t]
  /\ clock = Now0
  /\ request = NoRequest
  /\ response = NoResponse
  /\ value = 0
  /\ result = NoResult
  /\ calls = <<>>

SpecBuild == InitBuild /\ [][CreateMetricsRequest]_vars

----------------------------------------------------------------------------
(* extractValue alone, on every response and aggregation type *)

InitExtract ==
  /\ pc = "queried"
  /\ \E a \in AggStrings :
       /\ metadata = [BaseMeta EXCEPT !.aggregationType = a]
       /\ request = CreateMetricsRequestOf(metadata, Now0, Now0, Now0).v
  /\ clock = Now0
  /\ response \in Responses
  /\ value = 0
  /\ result = NoResult
  /\ calls = <<"createMetricsRequest", "validate", "List">>

SpecExtract == InitExtract /\ [][ExtractValue]_vars

----------------------------------------------------------------------------
(* the rounding alone, on every value of -MaxTenths..MaxTenths tenths *)

InitRound ==
  /\ pc = "extracted"
  /\ metadata = BaseMeta
  /\ request = CreateMetricsRequestOf(metadata, Now0, Now0, Now0).v
  /\ clock = Now0
  /\ value \in (0 - MaxTenths)..MaxTenths
  /\ response = ResponseOf(Slice(<<[NoPoint EXCEPT !.Average = Some(value)]>>))
  /\ result = NoResult
  /\ calls = <<"createMetricsRequest", "validate", "List", "extractValue">>

SpecRound == InitRound /\ [][RoundValue]_vars

----------------------------------------------------------------------------
(* Properties *)

\* the error kinds of the specification that the code has no message for
MalformedResourceIdentifier == "MalformedResourceIdentifier"

\* a level of the response that is absent (nil) or empty
AbsentOrEmpty(p) == p.k # "slice" \/ p.e = <<>>

\* the data points the extraction reads, when every level above them holds
\* something
HasData(resp) ==
  /\ ~AbsentOrEmpty(resp.Value)
  /\ ~AbsentOrEmpty(resp.Value.e[1].Timeseries)
  /\ ~AbsentOrEmpty(resp.Value.e[1].Timeseries.e[1].Data)
DataOf(resp) == resp.Value.e[1].Timeseries.e[1].Data.e

\* a string of one or more decimal digits
IsNatural(s) == s # <<>> /\ \A i \in 1..Len(s) : s[i] \in Digits

\* the seconds a formatted timestamp stands for
SecondsOf(f) == f.date * 86400 + f.hh * 3600 + f.mm * 60 + f.ss

LowerString(s) == [i \in 1..Len(s) |-> FoldChar(s[i])]
UpperString(s) ==
  [i \in 1..Len(s) |->
     IF \E j \in 1..26 : LowerChars[j] = s[i]
     THEN UpperChars[CHOOSE j \in 1..26 : LowerChars[j] = s[i]]
     ELSE s[i]]

\* the field of a data point that an aggregation string names, as a float
FieldNamed(point, a) ==
  LET l == LowerString(a)
  IN IF l = LowerString(Average) THEN point.Average
     ELSE IF l = LowerString(Total) THEN point.Total
     ELSE IF l = LowerString(Maximum) THEN point.Maximum
     ELSE IF l = LowerString(Minimum) THEN point.Minimum
     ELSE IF l = LowerString(Count) /\ point.Count.some
          THEN Some(point.Count.x * Scale)
     ELSE None

\* the response with data point i of its first time series replaced by p
WithPoint(resp, i, p) ==
  [resp EXCEPT !.Value.e[1].Timeseries.e[1].Data.e[i] = p]

\* C1: a resource URI "ns/type/name" gives the request exactly (ns, type,
\* name); one of fewer than three segments (the empty string too) makes the
\* build fail with a MalformedResourceIdentifier error, never reading past the
\* end of the split.
C1_Decomposition ==
  pc # "start" =>
    LET seg == Split(metadata.resourceURI, "/")
    IN /\ Len(seg) = 3 =>
            /\ result.err # MalformedResourceIdentifier
            /\ pc = "built" =>
                 <<request.ResourceProviderNamespace, request.ResourceType,
                   request.ResourceName>> = seg
       /\ Len(seg) < 3 =>
            /\ pc = "done"
            /\ result.kind = "err"
            /\ result.err = MalformedResourceIdentifier

\* C2: whenever the result sequence, the first result's time series or the
\* first series' data points are absent or empty, the extraction ends in an
\* error (empty response, no time series, no data points: the shallowest
\* missing level wins), never in a nil dereference or an index out of range.
C2_ExtractionTotal ==
  pc # "queried" =>
    IF AbsentOrEmpty(response.Value)
    THEN result.kind = "err" /\ result.err = ErrEmptyResponse
    ELSE IF AbsentOrEmpty(response.Value.e[1].Timeseries)
    THEN result.kind = "err" /\ result.err = ErrNoTimeseries
    ELSE IF AbsentOrEmpty(response.Value.e[1].Timeseries.e[1].Data)
    THEN result.kind = "err" /\ result.err = ErrNoValues
    ELSE result.kind # "panic"

\* C3: with a non-empty data-point sequence, the extraction returns the field
\* of the LAST data point that the requested aggregation names ignoring case
\* (Count as a float), and fails with the no-value error when that field is
\* absent there or the string names none of the five; no earlier data point
\* and no change of letter case changes the outcome.
C3_LastPointAggregation ==
  pc # "queried" /\ HasData(response) =>
    LET data == DataOf(response)
        field == FieldNamed(data[Len(data)], request.Aggregation)
        outcome == ExtractValueOf(request, response)
    IN /\ IF field.some
          THEN pc = "extracted" /\ value = field.x /\ result = NoResult
          ELSE pc = "done" /\ result = Err(ErrNoValue, -1)
       /\ \A i \in 1..(Len(data) - 1) : \A p \in OlderPoints \cup {FullPoint} :
            ExtractValueOf(request, WithPoint(response, i, p)) = outcome
       /\ \A a \in {LowerString(request.Aggregation),
                    UpperString(request.Aggregation)} :
            ExtractValueOf([request EXCEPT !.Aggregation = a], response)
              = outcome

\* C3's case: COUNT in upper case, two data points whose Count fields differ
C3_Witness ==
  /\ pc = "extracted"
  /\ HasData(response)
  /\ Len(DataOf(response)) = 2
  /\ request.Aggregation = <<"C", "O", "U", "N", "T">>
  /\ DataOf(response)[1].Count = Some(8)
  /\ DataOf(response)[1].Average = None
  /\ DataOf(response)[2].Count = Some(7)
  /\ value = 70

\* C4: the request is validated before client.List is called, and after a
\* failed validation client.List is never called.
C4_ValidateBeforeList ==
  /\ \A i \in 1..Len(calls) :
       calls[i] = "List" =>
         /\ \E j \in 1..(i - 1) : calls[j] = "validate"
         /\ Validate(request) = ""
  /\ (\E j \in 1..Len(calls) : calls[j] = "validate") /\ Validate(request) # ""
       => /\ \A i \in 1..Len(calls) : calls[i] # "List"
          /\ pc = "done"

\* C4's case: client.List has been called, right after the validation
C4_Witness ==
  /\ pc = "queried"
  /\ \E i \in 2..Len(calls) : calls[i] = "List" /\ calls[i - 1] = "validate"

\* C5: every invocation ends either with a signal and no error or with an
\* error, so that a reading of -1 or below is a success no caller can take
\* for a failure.
C5_ExplicitErrorOutcome ==
  pc = "done" =>
    \/ result.kind = "ok" /\ result.err = ""
    \/ result.kind = "err" /\ result.err # ""

\* C6: on a non-empty interval, formatTimeSpan parses hours, minutes and
\* seconds as non-negative integers; when one of them is not, it returns the
\* parse error and no timespan, and it fails in no other way.
C6_IntervalParse ==
  /\ pc # "start"
  /\ metadata.aggregationInterval # <<>>
  /\ Len(Split(metadata.resourceURI, "/")) >= 3
  => LET c == Split(metadata.aggregationInterval, ":")
     IN IF Len(c) >= 3 /\ IsNatural(c[1]) /\ IsNatural(c[2]) /\ IsNatural(c[3])
        THEN pc = "built"
        ELSE pc = "done" /\ result = Err(ErrTimespan, -1)

\* C7: in a formatted timespan the end is the time of the call and end minus
\* start is H*3600 + M*60 + S seconds for an interval "H:M:S", 5 minutes for
\* none, up to the skew of the clock reads; the start is never after the end
\* (by more than that skew).
C7_WindowLength ==
  pc = "built" =>
    LET start == SecondsOf(request.Timespan.start)
        end == SecondsOf(request.Timespan.end)
        c == Split(metadata.aggregationInterval, ":")
    IN /\ end = Now0
       /\ start <= end + 2 * MaxSkew
       /\ metadata.aggregationInterval = <<>> =>
            end - start \in (DefaultWindow - 2 * MaxSkew)..DefaultWindow
       /\ Len(c) >= 3 /\ IsNatural(c[1]) /\ IsNatural(c[2]) /\ IsNatural(c[3]) =>
            LET length == ParseUint(c[1]) * 3600 + ParseUint(c[2]) * 60
                            + ParseUint(c[3])
            IN end - start \in (length - 2 * MaxSkew)..length

\* C8: an invocation is one pass build, validate, query, extract, round: at
\* most one query, the first failing step ends it with an error and no later
\* step runs, and a signal is returned only when every step succeeded.
C8_SinglePass ==
  LET steps == <<"createMetricsRequest", "validate", "List", "extractValue",
                 "Round">>
  IN /\ Len(calls) <= Len(steps)
     /\ calls = SubSeq(steps, 1, Len(calls))
     /\ Cardinality({i \in 1..Len(calls) : calls[i] = "List"}) <= 1
     /\ pc = "done" /\ Len(calls) < Len(steps) => result.kind = "err"
     /\ result.kind = "ok" => pc = "done" /\ calls = steps

\* C9: validation reports exactly one missing field, the first empty one of
\* metricName, resourceGroup, subscriptionID in that order, and succeeds when
\* none is empty.
C9_ValidationOrder ==
  Len(calls) >= 2 =>
    LET fields == <<<<request.MetricName, ErrMetricName>>,
                    <<request.ResourceGroup, ErrResourceGroup>>,
                    <<request.SubscriptionID, ErrSubscriptionID>>>>
        IsEmpty(f) == f[1] = ""
        missing == SelectSeq(fields, IsEmpty)
    IN IF missing = <<>>
       THEN Len(calls) = 2 => pc = "validated" /\ result = NoResult
       ELSE /\ Len(calls) = 2
            /\ pc = "done"
            /\ result = Err(missing[1][2], -1)

\* C9's case: the three required fields are empty, metricName is reported
C9_Witness ==
  /\ Len(calls) = 2
  /\ request.MetricName = ""
  /\ request.ResourceGroup = ""
  /\ request.SubscriptionID = ""
  /\ result = Err(ErrMetricName, -1)

\* C10: the signal is the extracted value rounded to the nearest integer, a
\* tie going away from zero.
C10_RoundHalfAwayFromZero ==
  pc = "done" =>
    LET r == result.v * Scale
        dist == IF r >= value THEN r - value ELSE value - r
        Abs(x) == IF x >= 0 THEN x ELSE 0 - x
    IN /\ result.kind = "ok"
       /\ 2 * dist <= Scale
       /\ 2 * dist = Scale => Abs(r) > Abs(value)

\* C10's case: -4.5 has been rounded to -5
C10_Witness ==
  pc = "done" /\ value = -45 /\ result = Ok(-5)

====
